---- MODULE Spec2Model ----
(***************************************************************************)
(* Model of the two MCP servers of the repository:                         *)
(*   apollo-mcp-server/server.py        search_people, enrich_person,      *)
(*                                      search_companies                   *)
(*   google-sheets-mcp-server/server.py get_credentials and the            *)
(*                                      spreadsheet tools                  *)
(*   google-sheets-mcp-server/generate_token.py  main                      *)
(* A behaviour of Spec is a run of one of the two server processes         *)
(* (variable server); the servers share no state.  The projection of a     *)
(* response onto a field list, the row search of spreadsheets_search and   *)
(* generate_token.main are run on their own inputs by SpecProject,         *)
(* SpecSearch and SpecToken.                                               *)
(***************************************************************************)
EXTENDS Integers, Sequences, FiniteSets, TLC

VARIABLES
    server,      \* which server process this run is: "apollo" or "sheets"
    \* ---- apollo-mcp-server
    apikey,      \* os.environ.get("APOLLO_API_KEY"): "unset", "" or a key
    a_pc,        \* position of the tool invocation
    a_tool,      \* the tool invoked
    a_input,     \* the caller's arguments (NoneV = left unset)
    a_sent,      \* requests handed to the transport in this invocation
    a_status,    \* the transport's response status class
    a_outcome,   \* how the invocation ended
    \* ---- google-sheets-mcp-server
    store,       \* token.json: NoFile, Corrupt or a credential record
    secrets,     \* client_secrets.json exists
    nextTok,     \* next fresh access token the provider will issue
    lastWriter,  \* the invocation that wrote token.json last (0 = none)
    pc,          \* per invocation: position in the tool
    tool,        \* per invocation: the tool invoked
    creds,       \* per invocation: local variable creds of get_credentials
    loaded,      \* per invocation: what the load of token.json produced
    wrote,       \* per invocation: the record it wrote to token.json
    trace,       \* per invocation: the steps it ran, in order
    outcome,     \* per invocation: how it ended
    \* ---- the response projection, the row search, generate_token.main
    proj,        \* a projection: its tool, source object, field list, result
    srch,        \* a row search: its rows, term, column, case flag, result
    gen          \* a run of generate_token.main

apolloVars == <<apikey, a_pc, a_tool, a_input, a_sent, a_status, a_outcome>>
sheetsVars == <<store, secrets, nextTok, lastWriter, pc, tool, creds, loaded,
                wrote, trace, outcome>>
unitVars == <<proj, srch, gen>>
vars == <<server, apolloVars, sheetsVars, unitVars>>

(***************************************************************************)
(* Bounds of the model.                                                    *)
(***************************************************************************)
MaxSupplied == 2      \* parameters a caller supplies in one invocation
MaxPerPage == 102     \* largest per_page a caller requests

(***************************************************************************)
(* JSON-shaped values.  Every value is a record with the same fields so    *)
(* that values of different Python types compare unequal:                  *)
(*   t  the type: "none", "int", "str", "bool", "list", "obj"              *)
(*   i  the integer (bool: 0/1), s the string, l the list of strings,      *)
(*   o  the object: a function from keys to values                         *)
(***************************************************************************)
NoObj == [k \in {} |-> 0]
Mk(t, i, s, l, o) == [t |-> t, i |-> i, s |-> s, l |-> l, o |-> o]
NoneV == Mk("none", 0, "", <<>>, NoObj)
IntV(n) == Mk("int", n, "", <<>>, NoObj)
StrV(x) == Mk("str", 0, x, <<>>, NoObj)
BoolV(b) == Mk("bool", IF b THEN 1 ELSE 0, "", <<>>, NoObj)
ListV(xs) == Mk("list", 0, "", xs, NoObj)
ObjV(f) == Mk("obj", 0, "", <<>>, f)

\* d[k] = v on a Python dict
Put(d, k, v) == [x \in (DOMAIN d) \cup {k} |-> IF x = k THEN v ELSE d[x]]

(***************************************************************************)
(* apollo-mcp-server: parameters of the three tools.                       *)
(***************************************************************************)
ListParams ==
    {"person_titles", "person_locations", "person_seniorities",
     "organization_locations", "organization_not_locations",
     "q_organization_domains_list", "contact_email_status", "organization_ids",
     "organization_num_employees_ranges",
     "currently_using_all_of_technology_uids",
     "currently_using_any_of_technology_uids",
     "currently_not_using_any_of_technology_uids",
     "q_organization_job_titles", "organization_job_locations",
     "q_organization_keyword_tags"}
BoolParams == {"include_similar_titles", "reveal_personal_emails"}
StrParams ==
    {"q_keywords", "q_organization_name",
     "organization_job_posted_at_range_min", "organization_job_posted_at_range_max",
     "latest_funding_date_range_min", "latest_funding_date_range_max",
     "first_name", "last_name", "name", "email", "hashed_email",
     "organization_name", "domain", "id", "linkedin_url"}
IntParams ==
    {"revenue_range_min", "revenue_range_max",
     "organization_num_jobs_range_min", "organization_num_jobs_range_max",
     "latest_funding_amount_range_min", "latest_funding_amount_range_max",
     "total_funding_range_min", "total_funding_range_max"}

\* one step of payload assembly: copy a parameter, or build a range group
Copy(k) == [kind |-> "copy", key |-> k, lo |-> "", hi |-> ""]
Range(k) == [kind |-> "range", key |-> k, lo |-> k \o "_min", hi |-> k \o "_max"]

SearchPeopleSteps ==
    << Copy("person_titles"), Copy("include_similar_titles"), Copy("q_keywords"),
       Copy("person_locations"), Copy("person_seniorities"),
       Copy("organization_locations"), Copy("q_organization_domains_list"),
       Copy("contact_email_status"), Copy("organization_ids"),
       Copy("organization_num_employees_ranges"), Range("revenue_range"),
       Copy("currently_using_all_of_technology_uids"),
       Copy("currently_using_any_of_technology_uids"),
       Copy("currently_not_using_any_of_technology_uids"),
       Copy("q_organization_job_titles"), Copy("organization_job_locations"),
       Range("organization_num_jobs_range"),
       Range("organization_job_posted_at_range") >>

EnrichPersonSteps ==
    << Copy("first_name"), Copy("last_name"), Copy("name"), Copy("email"),
       Copy("hashed_email"), Copy("organization_name"), Copy("domain"),
       Copy("id"), Copy("linkedin_url") >>

SearchCompaniesSteps ==
    << Copy("q_organization_domains_list"),
       Copy("organization_num_employees_ranges"), Copy("organization_locations"),
       Copy("organization_not_locations"), Range("revenue_range"),
       Copy("currently_using_any_of_technology_uids"),
       Copy("q_organization_keyword_tags"), Copy("q_organization_name"),
       Copy("organization_ids"), Range("latest_funding_amount_range"),
       Range("total_funding_range"), Range("latest_funding_date_range"),
       Copy("q_organization_job_titles"), Copy("organization_job_locations"),
       Range("organization_num_jobs_range"),
       Range("organization_job_posted_at_range") >>

ApolloTools == {"search_people", "enrich_person", "search_companies"}
SearchTools == {"search_people", "search_companies"}

Steps(t) ==
    CASE t = "search_people" -> SearchPeopleSteps
      [] t = "enrich_person" -> EnrichPersonSteps
      [] t = "search_companies" -> SearchCompaniesSteps

StepParams(st) == IF st.kind = "copy" THEN {st.key} ELSE {st.lo, st.hi}

\* the named parameters of a tool other than its field list
Params(t) ==
    UNION {StepParams(Steps(t)[n]) : n \in 1..Len(Steps(t))}
      \cup (IF t \in SearchTools THEN {"page", "per_page"}
            ELSE {"reveal_personal_emails"})

\* the declared defaults that are not None
DefaultPage == 1
DefaultPerPage == 25
PerPageCap == 100
Defaults(t) ==
    IF t \in SearchTools
    THEN [k \in {"page", "per_page"} |->
            IF k = "page" THEN IntV(DefaultPage) ELSE IntV(DefaultPerPage)]
    ELSE [k \in {"reveal_personal_emails"} |-> BoolV(FALSE)]

\* the values the function body sees: an unset parameter takes its default
BindDefaults(t, input) ==
    [k \in DOMAIN input |->
        IF input[k] = NoneV /\ k \in DOMAIN Defaults(t)
        THEN Defaults(t)[k] ELSE input[k]]

Min(a, b) == IF a < b THEN a ELSE b

\* mutant: the parameter is copied whether or not it is set
CopyIfSet_Always(payload, args, k) == Put(payload, k, args[k])

\* mutant: the parameter is tested for truth, so that [], "" and False are
\* dropped
CopyIfSet_Truthy(payload, args, k) ==
    IF args[k] \notin {NoneV, ListV(<<>>), StrV(""), BoolV(FALSE), IntV(0)}
    THEN Put(payload, k, args[k]) ELSE payload

\* if x is not None: payload[k] = x
CopyIfSet(payload, args, k) ==
    IF args[k] # NoneV THEN Put(payload, k, args[k]) ELSE payload

\* mutant: the ends are tested for truth, so that 0 counts as unset
RangeGroup_Truthy(payload, args, g, lo, hi) ==
    LET set(v) == v # NoneV /\ v # IntV(0) /\ v # StrV("")
    IN  IF set(args[lo]) \/ set(args[hi])
        THEN LET o0 == NoObj
                 o1 == IF set(args[lo]) THEN Put(o0, "min", args[lo]) ELSE o0
                 o2 == IF set(args[hi]) THEN Put(o1, "max", args[hi]) ELSE o1
             IN  Put(payload, g, ObjV(o2))
        ELSE payload

\* if lo is not None or hi is not None: payload[g] = {} and its min/max
RangeGroup(payload, args, g, lo, hi) ==
    IF args[lo] # NoneV \/ args[hi] # NoneV
    THEN LET o0 == NoObj
             o1 == IF args[lo] # NoneV THEN Put(o0, "min", args[lo]) ELSE o0
             o2 == IF args[hi] # NoneV THEN Put(o1, "max", args[hi]) ELSE o1
         IN  Put(payload, g, ObjV(o2))
    ELSE payload

ApplyStep(payload, args, st) ==
    IF st.kind = "copy" THEN CopyIfSet(payload, args, st.key)
    ELSE RangeGroup(payload, args, st.key, st.lo, st.hi)

RECURSIVE ApplySteps(_, _, _, _)
ApplySteps(payload, args, steps, n) ==
    IF n > Len(steps) THEN payload
    ELSE ApplySteps(ApplyStep(payload, args, steps[n]), args, steps, n + 1)

\* mutant: per_page is sent as requested
Pagination_NoClamp(args) ==
    Put(Put(NoObj, "page", args["page"]), "per_page", args["per_page"])

\* payload = {"page": page, "per_page": min(per_page, 100)}
Pagination(args) ==
    Put(Put(NoObj, "page", args["page"]),
        "per_page", IntV(Min(args["per_page"].i, PerPageCap)))

\* if reveal_personal_emails: params["reveal_personal_emails"] = "true"
RevealFlag(params, args) ==
    IF args["reveal_personal_emails"] = BoolV(TRUE)
    THEN Put(params, "reveal_personal_emails", StrV("true")) ELSE params

\* the payload (search tools) or query mapping (enrich_person) of a call
Assemble(t, args) ==
    IF t \in SearchTools
    THEN ApplySteps(Pagination(args), args, Steps(t), 1)
    ELSE RevealFlag(ApplySteps(NoObj, args, Steps(t), 1), args)

Payload(t, input) == Assemble(t, BindDefaults(t, input))

\* mutant: only an unset variable is refused, an empty one is used
ApiKeyMissing_NoneOnly(k) == k = "unset"

\* if not api_key: raise ValueError
ApiKeyMissing(k) == k = "unset" \/ k = ""

(***************************************************************************)
(* The arguments a caller may pass: at most MaxSupplied parameters are     *)
(* supplied, the others are left unset.                                    *)
(***************************************************************************)
PerPageValues == {IntV(n) : n \in {-1, 0, DefaultPerPage} \cup ((PerPageCap - 1)..MaxPerPage)}
Dom(k) ==
    CASE k = "per_page" -> PerPageValues
      [] k = "page" -> {IntV(1), IntV(2)}
      [] k \in ListParams -> {ListV(<<>>), ListV(<<"a">>)}
      [] k \in BoolParams -> {BoolV(FALSE), BoolV(TRUE)}
      [] k \in StrParams -> {StrV(""), StrV("x")}
      [] k \in IntParams -> {IntV(0), IntV(7)}

RECURSIVE SubsetsUpTo(_, _)
SubsetsUpTo(P, n) ==
    IF n = 0 THEN {{}}
    ELSE LET prev == SubsetsUpTo(P, n - 1)
         IN  prev \cup {s \cup {x} : s \in prev, x \in P}

RECURSIVE Assign(_)
Assign(S) ==
    IF S = {} THEN {NoObj}
    ELSE LET k == CHOOSE x \in S : TRUE
         IN  {Put(f, k, v) : f \in Assign(S \ {k}), v \in Dom(k)}

InputsOver(P) ==
    {[k \in P |-> IF k \in DOMAIN f THEN f[k] ELSE NoneV] :
        f \in UNION {Assign(S) : S \in SubsetsUpTo(P, MaxSupplied)}}

InputsSearchPeople == InputsOver(Params("search_people"))
InputsEnrichPerson == InputsOver(Params("enrich_person"))
InputsSearchCompanies == InputsOver(Params("search_companies"))
Inputs(t) ==
    CASE t = "search_people" -> InputsSearchPeople
      [] t = "enrich_person" -> InputsEnrichPerson
      [] t = "search_companies" -> InputsSearchCompanies

(***************************************************************************)
(* apollo-mcp-server: a tool invocation.                                   *)
(***************************************************************************)
NoOutcome == [kind |-> "none", error |-> "", reason |-> ""]
Result == [kind |-> "result", error |-> "", reason |-> ""]
Raised(e, r) == [kind |-> "raised", error |-> e, reason |-> r]
ErrorObject(e, r) == [kind |-> "error", error |-> e, reason |-> r]

Reasons == {"Bad Request", "Internal Server Error"}

\* response.raise_for_status(): the tool has no handler around it
RaiseForStatus(reason) == Raised("HTTPStatusError", reason)

\* the tool is called: get_api_key(), the payload, and the request is sent
ApolloInvoke ==
    /\ server = "apollo"
    /\ a_pc = "idle"
    /\ \E t \in ApolloTools : \E input \in Inputs(t) :
        /\ a_tool' = t
        /\ a_input' = input
        /\ IF ApiKeyMissing(apikey)
           THEN /\ a_pc' = "raised"
                /\ a_outcome' = Raised("ValueError", "")
                /\ a_sent' = <<>>
           ELSE /\ a_pc' = "awaiting"
                /\ a_outcome' = NoOutcome
                /\ a_sent' = <<Payload(t, input)>>
    /\ a_status' = "none"
    /\ UNCHANGED <<server, unitVars, apikey, sheetsVars>>

\* the transport answers 2xx: the response is projected and returned
ApolloRespondOk ==
    /\ server = "apollo"
    /\ a_pc = "awaiting"
    /\ a_status' = "2xx"
    /\ a_pc' = "returned"
    /\ a_outcome' = Result
    /\ UNCHANGED <<server, unitVars, apikey, a_tool, a_input, a_sent, sheetsVars>>

\* the transport answers with a non-success status
ApolloRespondError(reason) ==
    /\ server = "apollo"
    /\ a_pc = "awaiting"
    /\ a_status' = "error"
    /\ a_outcome' = RaiseForStatus(reason)
    /\ a_pc' = IF a_outcome'.kind = "raised" THEN "raised" ELSE "returned"
    /\ UNCHANGED <<server, unitVars, apikey, a_tool, a_input, a_sent, sheetsVars>>

\* the result or the exception is delivered to the caller
ApolloReturn ==
    /\ server = "apollo"
    /\ a_pc \in {"returned", "raised"}
    /\ a_pc' = "idle"
    /\ a_tool' = "none"
    /\ a_input' = NoObj
    /\ a_sent' = <<>>
    /\ a_status' = "none"
    /\ a_outcome' = NoOutcome
    /\ UNCHANGED <<server, unitVars, apikey, sheetsVars>>

NextApollo ==
    \/ ApolloInvoke
    \/ ApolloRespondOk
    \/ \E reason \in Reasons : ApolloRespondError(reason)
    \/ ApolloReturn


(***************************************************************************)
(* apollo-mcp-server: projection of a response object onto a field list.   *)
(* A key or a field path is the sequence of its dot-free pieces and its    *)
(* dots: "organization.name" is <<"organization", ".", "name">>.           *)
(***************************************************************************)
MaxFields == 2        \* field paths in one field list

Key(x) == <<x>>
Path(a, b) == <<a, ".", b>>

\* "." in field
HasDot(field) == \E n \in DOMAIN field : field[n] = "."
FirstDot(field) ==
    CHOOSE n \in DOMAIN field : field[n] = "." /\ \A m \in 1..(n - 1) : field[m] # "."
\* parent, child = field.split(".", 1)
SplitParent(field) == SubSeq(field, 1, FirstDot(field) - 1)
SplitChild(field) == SubSeq(field, FirstDot(field) + 1, Len(field))
\* f.startswith(prefix)
StartsWith(f, prefix) ==
    Len(f) >= Len(prefix) /\ SubSeq(f, 1, Len(prefix)) = prefix

\* mutant: a value that tests false ("", [], 0, None) is not copied
TopField_Truthy(filtered, obj, field) ==
    IF field \in DOMAIN obj
         /\ obj[field] \notin {NoneV, StrV(""), ListV(<<>>), IntV(0), BoolV(FALSE)}
    THEN Put(filtered, field, obj[field]) ELSE filtered

\* if field in obj: filtered[field] = obj[field]
TopField(filtered, obj, field) ==
    IF field \in DOMAIN obj THEN Put(filtered, field, obj[field]) ELSE filtered

\* the branch of a dotted field: the parent entry is created as {} when the
\* source has a parent that is not None, the child is copied when the
\* parent is a dict that has it
NestedField(filtered, person, field) ==
    LET parent == SplitParent(field)
        child == SplitChild(field)
    IN  IF parent \in DOMAIN person /\ person[parent] # NoneV
        THEN LET f1 == IF parent \notin DOMAIN filtered
                       THEN Put(filtered, parent, ObjV(NoObj)) ELSE filtered
             IN  IF person[parent].t = "obj" /\ child \in DOMAIN person[parent].o
                 THEN Put(f1, parent,
                          ObjV(Put(f1[parent].o, child, person[parent].o[child])))
                 ELSE f1
        ELSE filtered

\* one iteration of the loop over the field list; search_companies has no
\* branch for dotted fields
ProjectField(t, filtered, obj, field) ==
    IF t # "search_companies" /\ HasDot(field)
    THEN NestedField(filtered, obj, field)
    ELSE TopField(filtered, obj, field)

RECURSIVE ProjectLoop(_, _, _, _, _)
ProjectLoop(t, filtered, obj, fields, n) ==
    IF n > Len(fields) THEN filtered
    ELSE ProjectLoop(t, ProjectField(t, filtered, obj, fields[n]), obj, fields, n + 1)

AlwaysIncludeArrays ==
    << Key("employment_history"), Key("contact_emails"), Key("phone_numbers") >>

\* mutant: an array is included only when the field list names it
AlwaysInclude_IfRequested(filtered, person, fields, n) ==
    LET arr == AlwaysIncludeArrays[n]
    IN  IF arr \in DOMAIN person /\ (\E m \in DOMAIN fields : fields[m] = arr)
        THEN Put(filtered, arr, person[arr]) ELSE filtered

\* if array_field in person: filtered_person[array_field] = person[array_field]
AlwaysInclude(filtered, person, fields, n) ==
    LET arr == AlwaysIncludeArrays[n]
    IN  IF arr \in DOMAIN person THEN Put(filtered, arr, person[arr]) ELSE filtered

\* if any(f.startswith(name + ".")): if name in person and name not in
\* filtered_person: filtered_person[name] = person[name]
ReferencedObject(filtered, person, fields, name) ==
    IF \E n \in DOMAIN fields : StartsWith(fields[n], <<name, ".">>)
    THEN IF Key(name) \in DOMAIN person /\ Key(name) \notin DOMAIN filtered
         THEN Put(filtered, Key(name), person[Key(name)]) ELSE filtered
    ELSE filtered

\* the filtered object a tool builds from one object of the response
ProjectObject(t, obj, fields) ==
    LET looped == ProjectLoop(t, NoObj, obj, fields, 1)
    IN  IF t = "enrich_person"
        THEN LET a1 == AlwaysInclude(looped, obj, fields, 1)
                 a2 == AlwaysInclude(a1, obj, fields, 2)
                 a3 == AlwaysInclude(a2, obj, fields, 3)
                 c == ReferencedObject(a3, obj, fields, "contact")
             IN  ReferencedObject(c, obj, fields, "organization")
        ELSE looped

(***************************************************************************)
(* The objects and field lists the projection is run on.                   *)
(***************************************************************************)
DeepPath == <<"organization", ".", "address", ".", "city">>
FieldPaths ==
    {Key("name"), Key("organization"), Key("employment_history"),
     Path("organization", "name"), Path("contact", "email"), DeepPath}
FieldLists == UNION {[1..n -> FieldPaths] : n \in 0..MaxFields}

Absent == Mk("absent", 0, "", <<>>, NoObj)
SourceValues(k) ==
    CASE k = Key("name") -> {Absent, StrV("Ann")}
      [] k = Key("organization") ->
            {Absent, NoneV, StrV("Acme"), ListV(<<"Acme">>),
             ObjV(Put(NoObj, Key("name"), StrV("Acme")))}
      [] k = Key("contact") ->
            {Absent, NoneV, ObjV(Put(NoObj, Key("id"), StrV("c1")))}
      [] k = Key("employment_history") -> {Absent, ListV(<<"job">>)}
      [] k = Key("phone_numbers") -> {Absent, ListV(<<>>)}
      [] k = Path("organization", "name") -> {Absent, StrV("dotted")}
SourceKeys ==
    {Key("name"), Key("organization"), Key("contact"), Key("employment_history"),
     Key("phone_numbers"), Path("organization", "name")}
Sources ==
    {[k \in {x \in SourceKeys : f[x] # Absent} |-> f[k]] :
        f \in {g \in [SourceKeys -> UNION {SourceValues(k) : k \in SourceKeys}] :
                 \A k \in SourceKeys : g[k] \in SourceValues(k)}}

ProjIdle ==
    [pc |-> "idle", tool |-> "none", source |-> NoObj, fields |-> <<>>,
     result |-> NoObj]

\* the loop body of the tool runs on one object of a 2xx response
ProjectResponse ==
    /\ proj.pc = "response"
    /\ proj' = [proj EXCEPT !.pc = "projected",
                            !.result = ProjectObject(proj.tool, proj.source, proj.fields)]
    /\ UNCHANGED <<server, apolloVars, sheetsVars, srch, gen>>

NextProject == ProjectResponse

(***************************************************************************)
(* google-sheets-mcp-server: credential records and token.json.            *)
(*   tok      the access token (0 = no access token)                       *)
(*   rt       a refresh token is present                                   *)
(*   expired  the expiry has passed                                        *)
(* get_credentials reads valid and expired once, right after the load, so  *)
(* the passing of time is covered by the initial token.json, which ranges  *)
(* over every kind of record.  A refresh and the interactive flow yield a  *)
(* record with a fresh access token whose expiry lies ahead.               *)
(***************************************************************************)
Cred(tok, rt, expired) ==
    [kind |-> "record", tok |-> tok, rt |-> rt, expired |-> expired]
None == [kind |-> "none", tok |-> 0, rt |-> FALSE, expired |-> FALSE]
NoFile == [kind |-> "nofile", tok |-> 0, rt |-> FALSE, expired |-> FALSE]
Corrupt == [kind |-> "corrupt", tok |-> 0, rt |-> FALSE, expired |-> FALSE]

\* creds.valid: an access token is present and it has not expired
Valid(c) == c.kind = "record" /\ c.tok # 0 /\ ~c.expired
\* truth value of creds: None is false, a Credentials object is true
Truthy(c) == c.kind = "record"

\* lines 52-60: the record of token.json, None when the file is missing or
\* from_authorized_user_file raises
LoadToken(file) == IF file.kind = "record" THEN file ELSE None

\* mutant: the save is done on every call, also for a valid record
AfterLoad_AlwaysPersist(c) ==
    IF ~Truthy(c) \/ ~Valid(c)
    THEN IF Truthy(c) /\ c.expired /\ c.rt THEN "refresh"
         ELSE IF ~Truthy(c) THEN "flow" ELSE "persist"
    ELSE "persist"

\* lines 63-72, 91: where get_credentials goes with the loaded creds
AfterLoad(c) ==
    IF ~Truthy(c) \/ ~Valid(c)
    THEN IF Truthy(c) /\ c.expired /\ c.rt THEN "refresh"
         ELSE IF ~Truthy(c) THEN "flow" ELSE "persist"
    ELSE "build"

\* mutant: the save is done only for a record of the interactive flow
AfterRefresh_SkipPersist(ok) == IF ok THEN "build" ELSE "flow"

\* lines 66-72: where get_credentials goes after creds.refresh(Request())
AfterRefresh(ok) == IF ok THEN "persist" ELSE "flow"

Procs == {1, 2}
SimpleTools ==
    {"spreadsheets_get", "spreadsheets_values_get", "spreadsheets_batch_update",
     "spreadsheets_values_update", "spreadsheets_values_append",
     "spreadsheets_values_clear", "spreadsheets_search"}
SheetsTools == SimpleTools \cup {"upload_csv"}
CsvStates == {"missing", "empty", "rows"}

\* what the tool does with an exception raised inside its try block
ToolBoundary(t, exc, reason) ==
    IF exc = "HttpError" THEN ErrorObject(exc, reason)
    ELSE IF t = "upload_csv" THEN ErrorObject(exc, reason)
    ELSE Raised(exc, reason)

\* the seven tools that make one request inside try/except HttpError share
\* one shape; upload_csv has its own
Shape(t) == IF t \in SimpleTools THEN "single_request" ELSE t

\* a tool is called; upload_csv first reads the CSV file
SheetsInvoke(p, t, csv) ==
    /\ server = "sheets"
    /\ pc[p] = "idle"
    /\ tool' = [tool EXCEPT ![p] = Shape(t)]
    /\ IF t = "upload_csv" /\ csv # "rows"
       THEN /\ pc' = [pc EXCEPT ![p] = "done"]
            /\ outcome' = [outcome EXCEPT ![p] = ErrorObject("csv", csv)]
       ELSE /\ pc' = [pc EXCEPT ![p] = "get_credentials"]
            /\ outcome' = [outcome EXCEPT ![p] = NoOutcome]
    /\ UNCHANGED <<server, unitVars, apolloVars, store, secrets, nextTok, lastWriter,
                   creds, loaded, wrote, trace>>

\* get_credentials lines 52-72: load token.json and decide
LoadCredentials(p) ==
    /\ server = "sheets"
    /\ pc[p] = "get_credentials"
    /\ LET c == LoadToken(store)
       IN  /\ creds' = [creds EXCEPT ![p] = c]
           /\ loaded' = [loaded EXCEPT ![p] = c]
           /\ pc' = [pc EXCEPT ![p] = AfterLoad(c)]
    /\ trace' = [trace EXCEPT ![p] = Append(@, "load")]
    /\ UNCHANGED <<server, unitVars, apolloVars, store, secrets, nextTok, lastWriter,
                   tool, wrote, outcome>>

\* creds.refresh(Request()) succeeds: the record gets a new token and expiry
RefreshOk(p) ==
    /\ server = "sheets"
    /\ pc[p] = "refresh"
    /\ creds' = [creds EXCEPT ![p] = Cred(nextTok, creds[p].rt, FALSE)]
    /\ nextTok' = nextTok + 1
    /\ pc' = [pc EXCEPT ![p] = AfterRefresh(TRUE)]
    /\ trace' = [trace EXCEPT ![p] = Append(@, "refresh_ok")]
    /\ UNCHANGED <<server, unitVars, apolloVars, store, secrets, lastWriter, tool,
                   loaded, wrote, outcome>>

\* an exception leaves get_credentials and reaches the tool
Fail(p, exc) ==
    /\ pc' = [pc EXCEPT ![p] = "done"]
    /\ outcome' = [outcome EXCEPT ![p] = ToolBoundary(tool[p], exc, "")]

\* mutant: the refresh is not wrapped in try/except
RefreshFail_Propagates(p) ==
    /\ server = "sheets"
    /\ pc[p] = "refresh"
    /\ trace' = [trace EXCEPT ![p] = Append(@, "refresh_fail")]
    /\ Fail(p, "RefreshError")
    /\ UNCHANGED <<server, unitVars, apolloVars, store, secrets, nextTok, lastWriter,
                   tool, creds, loaded, wrote>>

\* creds.refresh(Request()) raises: logged, creds = None
RefreshFail(p) ==
    /\ server = "sheets"
    /\ pc[p] = "refresh"
    /\ creds' = [creds EXCEPT ![p] = None]
    /\ pc' = [pc EXCEPT ![p] = AfterRefresh(FALSE)]
    /\ trace' = [trace EXCEPT ![p] = Append(@, "refresh_fail")]
    /\ UNCHANGED <<server, unitVars, apolloVars, store, secrets, nextTok, lastWriter,
                   tool, loaded, wrote, outcome>>

\* lines 73-77: client_secrets.json is missing
SecretsMissing(p) ==
    /\ server = "sheets"
    /\ pc[p] = "flow"
    /\ ~secrets
    /\ trace' = [trace EXCEPT ![p] = Append(@, "secrets_check")]
    /\ Fail(p, "FileNotFoundError")
    /\ UNCHANGED <<server, unitVars, apolloVars, store, secrets, nextTok, lastWriter,
                   tool, creds, loaded, wrote>>

\* lines 79-84: the interactive flow yields a new record
FlowOk(p, rt) ==
    /\ server = "sheets"
    /\ pc[p] = "flow"
    /\ secrets
    /\ creds' = [creds EXCEPT ![p] = Cred(nextTok, rt, FALSE)]
    /\ nextTok' = nextTok + 1
    /\ pc' = [pc EXCEPT ![p] = "persist"]
    /\ trace' = [trace EXCEPT ![p] = @ \o <<"secrets_check", "flow_ok">>]
    /\ UNCHANGED <<server, unitVars, apolloVars, store, secrets, lastWriter, tool,
                   loaded, wrote, outcome>>

\* lines 79-83: the interactive flow raises
FlowFail(p) ==
    /\ server = "sheets"
    /\ pc[p] = "flow"
    /\ secrets
    /\ trace' = [trace EXCEPT ![p] = @ \o <<"secrets_check", "flow_fail">>]
    /\ Fail(p, "FlowError")
    /\ UNCHANGED <<server, unitVars, apolloVars, store, secrets, nextTok, lastWriter,
                   tool, creds, loaded, wrote>>

\* mutant: the record as it was loaded is written, not the refreshed one
Persist_Stale(p) ==
    /\ server = "sheets"
    /\ pc[p] = "persist"
    /\ store' = (IF Truthy(loaded[p]) THEN loaded[p] ELSE creds[p])
    /\ wrote' = [wrote EXCEPT ![p] = store']
    /\ lastWriter' = p
    /\ pc' = [pc EXCEPT ![p] = "build"]
    /\ trace' = [trace EXCEPT ![p] = Append(@, "persist")]
    /\ UNCHANGED <<server, unitVars, apolloVars, secrets, nextTok, tool, creds, loaded,
                   outcome>>

\* lines 86-91: creds.to_json() is written to token.json, creds is returned
Persist(p) ==
    /\ server = "sheets"
    /\ pc[p] = "persist"
    /\ store' = creds[p]
    /\ wrote' = [wrote EXCEPT ![p] = creds[p]]
    /\ lastWriter' = p
    /\ pc' = [pc EXCEPT ![p] = "build"]
    /\ trace' = [trace EXCEPT ![p] = Append(@, "persist")]
    /\ UNCHANGED <<server, unitVars, apolloVars, secrets, nextTok, tool, creds, loaded,
                   outcome>>

\* requests a tool makes: upload_csv clears the sheet, then updates it
RequestsOf(t) == IF t = "upload_csv" THEN 2 ELSE 1
Requests(p) == Cardinality({n \in DOMAIN trace[p] : trace[p][n] = "request"})

\* build(...) and a request .execute() that succeeds
RequestOk(p) ==
    /\ server = "sheets"
    /\ pc[p] = "build"
    /\ trace' = [trace EXCEPT ![p] = Append(@, "request")]
    /\ IF Requests(p) + 1 = RequestsOf(tool[p])
       THEN /\ pc' = [pc EXCEPT ![p] = "done"]
            /\ outcome' = [outcome EXCEPT ![p] = Result]
       ELSE UNCHANGED <<pc, outcome>>
    /\ UNCHANGED <<server, unitVars, apolloVars, store, secrets, nextTok, lastWriter,
                   tool, creds, loaded, wrote>>

\* a request .execute() raises HttpError: except HttpError returns {"error"}
RequestError(p, reason) ==
    /\ server = "sheets"
    /\ pc[p] = "build"
    /\ trace' = [trace EXCEPT ![p] = Append(@, "request")]
    /\ pc' = [pc EXCEPT ![p] = "done"]
    /\ outcome' = [outcome EXCEPT ![p] = ToolBoundary(tool[p], "HttpError", reason)]
    /\ UNCHANGED <<server, unitVars, apolloVars, store, secrets, nextTok, lastWriter,
                   tool, creds, loaded, wrote>>

\* the requests of the invocation that the provider carried out: all but a
\* last one that raised HttpError
Succeeded(p) ==
    Requests(p) - (IF pc[p] = "done" /\ outcome[p].error = "HttpError" THEN 1 ELSE 0)

\* what the invocation has left in the sheet it uploads to: the clear
\* request empties it, the update request writes the CSV rows at A1
SheetContents(p) ==
    IF tool[p] # "upload_csv" \/ Succeeded(p) = 0 THEN "as_before"
    ELSE IF Succeeded(p) = 1 THEN "empty" ELSE "csv"

\* the result or the exception is delivered to the caller
SheetsReturn(p) ==
    /\ server = "sheets"
    /\ pc[p] = "done"
    /\ pc' = [pc EXCEPT ![p] = "idle"]
    /\ tool' = [tool EXCEPT ![p] = "none"]
    /\ creds' = [creds EXCEPT ![p] = None]
    /\ loaded' = [loaded EXCEPT ![p] = None]
    /\ wrote' = [wrote EXCEPT ![p] = None]
    /\ trace' = [trace EXCEPT ![p] = <<>>]
    /\ outcome' = [outcome EXCEPT ![p] = NoOutcome]
    /\ UNCHANGED <<server, unitVars, apolloVars, store, secrets, nextTok, lastWriter>>

NextSheets ==
    \/ \E p \in Procs, t \in SheetsTools, csv \in CsvStates : SheetsInvoke(p, t, csv)
    \/ \E p \in Procs : LoadCredentials(p)
    \/ \E p \in Procs : RefreshOk(p)
    \/ \E p \in Procs : RefreshFail(p)
    \/ \E p \in Procs : SecretsMissing(p)
    \/ \E p \in Procs, rt \in BOOLEAN : FlowOk(p, rt)
    \/ \E p \in Procs : FlowFail(p)
    \/ \E p \in Procs : Persist(p)
    \/ \E p \in Procs : RequestOk(p)
    \/ \E p \in Procs, reason \in Reasons : RequestError(p, reason)
    \/ \E p \in Procs : SheetsReturn(p)

(***************************************************************************)
(* google-sheets-mcp-server: the row search of spreadsheets_search.        *)
(* A string is the sequence of its characters.                             *)
(***************************************************************************)
MaxRows == 2          \* rows of the sheet that is searched
MaxCells == 2         \* cells of one row

UpperCase == <<"A", "B", "C", "D", "E", "F", "G", "H", "I", "J", "K", "L", "M",
               "N", "O", "P", "Q", "R", "S", "T", "U", "V", "W", "X", "Y", "Z">>
LowerCase == <<"a", "b", "c", "d", "e", "f", "g", "h", "i", "j", "k", "l", "m",
               "n", "o", "p", "q", "r", "s", "t", "u", "v", "w", "x", "y", "z">>
IndexIn(alphabet, ch) == CHOOSE n \in DOMAIN alphabet : alphabet[n] = ch
IsUpper(ch) == \E n \in DOMAIN UpperCase : UpperCase[n] = ch
IsLower(ch) == \E n \in DOMAIN LowerCase : LowerCase[n] = ch

\* ord(ch) of the characters of the model
Ord(ch) ==
    CASE IsUpper(ch) -> 64 + IndexIn(UpperCase, ch)
      [] IsLower(ch) -> 96 + IndexIn(LowerCase, ch)
      [] ch = " " -> 32
      [] ch = "1" -> 49
      [] ch = "@" -> 64
      [] ch = "[" -> 91

\* str.upper() and str.lower()
UpperChar(ch) == IF IsLower(ch) THEN UpperCase[IndexIn(LowerCase, ch)] ELSE ch
LowerChar(ch) == IF IsUpper(ch) THEN LowerCase[IndexIn(UpperCase, ch)] ELSE ch
UpperStr(x) == [n \in DOMAIN x |-> UpperChar(x[n])]
LowerStr(x) == [n \in DOMAIN x |-> LowerChar(x[n])]

\* sub in x
Contains(x, sub) ==
    \E n \in 0..(Len(x) - Len(sub)) : SubSeq(x, n + 1, n + Len(sub)) = sub

\* str(cell): the cells of a FORMATTED_VALUE response are strings
Str(cell) == cell

\* " ".join(str(cell) for cell in row)
RECURSIVE Join(_, _)
Join(row, n) ==
    IF n > Len(row) THEN <<>>
    ELSE IF n = Len(row) THEN Str(row[n])
    ELSE Str(row[n]) \o <<" ">> \o Join(row, n + 1)

\* the column argument: None, or a string
NoColumn == [given |-> FALSE, text |-> <<>>]
Column(text) == [given |-> TRUE, text |-> text]

\* ord(x) raises TypeError unless x is one character
OrdRaises(text) == Len(text) # 1

\* mutant: the index is the letter's 1-based position
ColIndex_OneBased(text) == Ord(UpperStr(text)[1]) - Ord("A") + 1

\* col_index = ord(column.upper()) - ord("A")
ColIndex(text) == Ord(UpperStr(text)[1]) - Ord("A")

\* row[k] of Python: a negative k counts from the end
IndexRaises(row, k) == k >= Len(row) \/ k < 0 - Len(row)
At(row, k) == IF k >= 0 THEN row[k + 1] ELSE row[Len(row) + k + 1]

\* the text of row that is compared, "skip" when the row is shorter than
\* the column, "IndexError" when row[col_index] raises
Compared(row, column, case_sensitive) ==
    LET cased(x) == IF case_sensitive THEN x ELSE LowerStr(x)
    IN  IF column.given
        THEN LET k == ColIndex(column.text)
             IN  IF k < Len(row)
                 THEN IF IndexRaises(row, k) THEN [kind |-> "IndexError", text |-> <<>>]
                      ELSE [kind |-> "text", text |-> cased(Str(At(row, k)))]
                 ELSE [kind |-> "skip", text |-> <<>>]
        ELSE [kind |-> "text", text |-> cased(Join(row, 1))]

\* the loop over enumerate(values): acc holds the matches so far, the rows
\* compared so far and the exception that ended the loop
RECURSIVE SearchRows(_, _, _, _, _, _)
SearchRows(values, search, column, case_sensitive, n, acc) ==
    IF n > Len(values) \/ acc.raised # "" THEN acc
    ELSE LET c == Compared(values[n], column, case_sensitive)
             next ==
                 CASE c.kind = "IndexError" -> [acc EXCEPT !.raised = "IndexError"]
                   [] c.kind = "skip" -> acc
                   [] c.kind = "text" ->
                        [acc EXCEPT
                           !.compared = @ \cup {n},
                           !.matches =
                               IF Contains(c.text, search)
                               THEN Append(@, [row_number |-> n, data |-> values[n]])
                               ELSE @]
         IN  SearchRows(values, search, column, case_sensitive, n + 1, next)

\* lines 399-428 on the values of the response
RowSearch(values, search_term, column, case_sensitive) ==
    LET search == IF case_sensitive THEN search_term ELSE LowerStr(search_term)
        acc0 == [matches |-> <<>>, compared |-> {}, raised |-> ""]
    IN  IF column.given /\ OrdRaises(column.text)
        THEN [acc0 EXCEPT !.raised = "TypeError"]
        ELSE SearchRows(values, search, column, case_sensitive, 1, acc0)

(***************************************************************************)
(* The sheets, terms and columns the search is run on.                     *)
(***************************************************************************)
Cells == {<<"a">>, <<"A", "b">>}
Rows == UNION {[1..n -> Cells] : n \in 0..MaxCells}
Sheets == UNION {[1..n -> Rows] : n \in 0..MaxRows}
Terms == {<<"a">>, <<"A", "b">>}
Columns ==
    {NoColumn, Column(<<"A">>), Column(<<"B">>), Column(<<"Z">>), Column(<<"b">>),
     Column(<<"A", "A">>), Column(<<"1">>), Column(<<"@">>)}

SrchIdle ==
    [pc |-> "idle", values |-> <<>>, term |-> <<>>, column |-> NoColumn,
     case_sensitive |-> FALSE, matches |-> <<>>, total_matches |-> 0,
     compared |-> {}, outcome |-> NoOutcome]

\* spreadsheets_search after the values of the range have arrived
SearchResponse ==
    /\ srch.pc = "response"
    /\ LET r == RowSearch(srch.values, srch.term, srch.column, srch.case_sensitive)
       IN  srch' = [srch EXCEPT
                      !.pc = "done",
                      !.matches = r.matches,
                      !.total_matches = Len(r.matches),
                      !.compared = r.compared,
                      !.outcome =
                          IF r.raised = "" THEN Result
                          ELSE ToolBoundary("spreadsheets_search", r.raised, "")]
    /\ UNCHANGED <<server, apolloVars, sheetsVars, proj, gen>>

NextSearch == SearchResponse

(***************************************************************************)
(* google-sheets-mcp-server/generate_token.py: main, run from a shell on   *)
(* the same token.json and client_secrets.json.  gen.store is the          *)
(* token.json this run reads and writes.                                   *)
(***************************************************************************)
GenIdle ==
    [pc |-> "idle", store |-> NoFile, creds |-> None, trace |-> <<>>,
     outcome |-> NoOutcome, nextTok |-> 2]

\* what main prints and returns on when client_secrets.json is missing
Printed(what) == [kind |-> "printed", error |-> what, reason |-> ""]

\* lines 44-48, 60: where main goes with the loaded creds
MainAfterLoad(c) ==
    IF ~Truthy(c) \/ ~Valid(c)
    THEN IF Truthy(c) /\ c.expired /\ c.rt THEN "refresh" ELSE "flow"
    ELSE "done"

\* lines 22-34: client_secrets.json is looked for first
MainSecretsCheck ==
    /\ gen.pc = "start"
    /\ gen' = [gen EXCEPT
                 !.trace = Append(@, "secrets_check"),
                 !.pc = IF secrets THEN "load" ELSE "done",
                 !.outcome = IF secrets THEN NoOutcome ELSE Printed("client_secrets")]
    /\ UNCHANGED <<server, apolloVars, sheetsVars, proj, srch>>

\* lines 36-48: token.json is loaded with no handler around the load
MainLoad ==
    /\ gen.pc = "load"
    /\ gen' = IF gen.store = Corrupt
              THEN [gen EXCEPT !.trace = Append(@, "load"), !.pc = "done",
                               !.outcome = Raised("ValueError", "")]
              ELSE LET c == IF gen.store = NoFile THEN None ELSE gen.store
                   IN  [gen EXCEPT !.trace = Append(@, "load"), !.creds = c,
                                   !.pc = MainAfterLoad(c),
                                   !.outcome = IF MainAfterLoad(c) = "done"
                                               THEN Result ELSE NoOutcome]
    /\ UNCHANGED <<server, apolloVars, sheetsVars, proj, srch>>

\* line 47: creds.refresh(Request()) succeeds
MainRefreshOk ==
    /\ gen.pc = "refresh"
    /\ gen' = [gen EXCEPT !.trace = Append(@, "refresh_ok"),
                          !.creds = Cred(gen.nextTok, gen.creds.rt, FALSE),
                          !.nextTok = @ + 1,
                          !.pc = "persist"]
    /\ UNCHANGED <<server, apolloVars, sheetsVars, proj, srch>>

\* line 47: creds.refresh(Request()) raises, with no handler around it
MainRefreshFail ==
    /\ gen.pc = "refresh"
    /\ gen' = [gen EXCEPT !.trace = Append(@, "refresh_fail"), !.pc = "done",
                          !.outcome = Raised("RefreshError", "")]
    /\ UNCHANGED <<server, apolloVars, sheetsVars, proj, srch>>

\* lines 49-54: the interactive flow yields a new record
MainFlowOk(rt) ==
    /\ gen.pc = "flow"
    /\ gen' = [gen EXCEPT !.trace = Append(@, "flow_ok"),
                          !.creds = Cred(gen.nextTok, rt, FALSE),
                          !.nextTok = @ + 1,
                          !.pc = "persist"]
    /\ UNCHANGED <<server, apolloVars, sheetsVars, proj, srch>>

\* lines 51-54: the interactive flow raises
MainFlowFail ==
    /\ gen.pc = "flow"
    /\ gen' = [gen EXCEPT !.trace = Append(@, "flow_fail"), !.pc = "done",
                          !.outcome = Raised("FlowError", "")]
    /\ UNCHANGED <<server, apolloVars, sheetsVars, proj, srch>>

\* lines 57-58: creds.to_json() is written to token.json
MainPersist ==
    /\ gen.pc = "persist"
    /\ gen' = [gen EXCEPT !.trace = Append(@, "persist"), !.store = gen.creds,
                          !.pc = "done", !.outcome = Result]
    /\ UNCHANGED <<server, apolloVars, sheetsVars, proj, srch>>

NextMain ==
    \/ MainSecretsCheck
    \/ MainLoad
    \/ MainRefreshOk
    \/ MainRefreshFail
    \/ \E rt \in BOOLEAN : MainFlowOk(rt)
    \/ MainFlowFail
    \/ MainPersist

\* one call of a spreadsheet tool up to the return of get_credentials
NextGetCredentials ==
    \/ \E t \in SheetsTools, csv \in CsvStates : SheetsInvoke(1, t, csv)
    \/ LoadCredentials(1)
    \/ RefreshOk(1)
    \/ RefreshFail(1)
    \/ SecretsMissing(1)
    \/ \E rt \in BOOLEAN : FlowOk(1, rt)
    \/ FlowFail(1)
    \/ Persist(1)

(***************************************************************************)
(* The specification.                                                      *)
(***************************************************************************)
InitialStores ==
    {NoFile, Corrupt} \cup {Cred(tok, rt, e) : tok \in {0, 1}, rt \in BOOLEAN, e \in BOOLEAN}

InitApollo ==
    /\ apikey \in {"unset", "", "key"}
    /\ a_pc = "idle"
    /\ a_tool = "none"
    /\ a_input = NoObj
    /\ a_sent = <<>>
    /\ a_status = "none"
    /\ a_outcome = NoOutcome

InitSheets ==
    /\ nextTok = 2
    /\ lastWriter = 0
    /\ pc = [p \in Procs |-> "idle"]
    /\ tool = [p \in Procs |-> "none"]
    /\ creds = [p \in Procs |-> None]
    /\ loaded = [p \in Procs |-> None]
    /\ wrote = [p \in Procs |-> None]
    /\ trace = [p \in Procs |-> <<>>]
    /\ outcome = [p \in Procs |-> NoOutcome]

Init ==
    /\ server \in {"apollo", "sheets"}
    /\ InitApollo
    /\ InitSheets
    /\ IF server = "sheets"
       THEN apikey = "unset" /\ store \in InitialStores /\ secrets \in BOOLEAN
       ELSE store = NoFile /\ secrets = FALSE
    /\ proj = ProjIdle
    /\ srch = SrchIdle
    /\ gen = GenIdle

Next == NextApollo \/ NextSheets

Spec == Init /\ [][Next]_vars

\* the units run on their own inputs
InitUnits ==
    /\ server = "none"
    /\ InitApollo
    /\ apikey = "unset"
    /\ InitSheets
    /\ store = NoFile
    /\ secrets = FALSE

InitProject ==
    /\ InitUnits
    /\ \E t \in ApolloTools, obj \in Sources, fields \in FieldLists :
          proj = [pc |-> "response", tool |-> t, source |-> obj,
                  fields |-> fields, result |-> NoObj]
    /\ srch = SrchIdle
    /\ gen = GenIdle

SpecProject == InitProject /\ [][NextProject]_vars

InitSearch ==
    /\ InitUnits
    /\ proj = ProjIdle
    /\ \E values \in Sheets, term \in Terms, column \in Columns, cs \in BOOLEAN :
          srch = [SrchIdle EXCEPT !.pc = "response", !.values = values,
                                  !.term = term, !.column = column,
                                  !.case_sensitive = cs]
    /\ gen = GenIdle

SpecSearch == InitSearch /\ [][NextSearch]_vars

\* get_credentials and generate_token.main, each on its own copy of the same
\* token.json, with the same client_secrets.json
InitToken ==
    /\ server = "sheets"
    /\ InitApollo
    /\ apikey = "unset"
    /\ InitSheets
    /\ store \in InitialStores
    /\ secrets \in BOOLEAN
    /\ proj = ProjIdle
    /\ srch = SrchIdle
    /\ gen = [GenIdle EXCEPT !.pc = "start", !.store = store]

SpecToken == InitToken /\ [][NextGetCredentials \/ NextMain]_vars

(***************************************************************************)
(* Helpers of the properties.                                              *)
(***************************************************************************)
Has(p, ev) == \E n \in DOMAIN trace[p] : trace[p][n] = ev
LastEvent(p) == IF trace[p] = <<>> THEN "" ELSE trace[p][Len(trace[p])]
\* get_credentials returned creds to the tool
GotCredentials(p) == pc[p] = "build" \/ Has(p, "request")
\* the request of the invocation in flight or just ended
Sent == a_sent[1]
RequestMade == server = "apollo" /\ a_pc # "idle" /\ Len(a_sent) = 1
RangeSteps(t) == {Steps(t)[n] : n \in {m \in 1..Len(Steps(t)) : Steps(t)[m].kind = "range"}}
PaginationParams == {"page", "per_page"}

(***************************************************************************)
(* C1. Every tool turns a non-success provider response into a returned    *)
(* error object that carries the provider's reason, never into an          *)
(* exception that leaves the tool, and makes no further transport call.    *)
(* The Apollo tools let raise_for_status() propagate: violated.            *)
(***************************************************************************)
C1_ProviderErrorIsReturned ==
    /\ (server = "apollo" /\ a_status = "error") =>
          /\ a_outcome.kind = "error"
          /\ a_outcome.reason \in Reasons
          /\ Len(a_sent) = 1
    /\ \A p \in Procs :
          (pc[p] = "done" /\ outcome[p].error = "HttpError") =>
              /\ outcome[p].kind = "error"
              /\ outcome[p].reason \in Reasons
              /\ LastEvent(p) = "request"

(***************************************************************************)
(* C2. A loaded record that is expired and has no refresh token is treated *)
(* as absent: get_credentials runs the interactive flow and persists and   *)
(* returns the record the flow produced, not the loaded one.               *)
(* The code persists and returns the loaded expired record: violated.      *)
(***************************************************************************)
ExpiredTerminal(c) == Truthy(c) /\ c.expired /\ ~c.rt
C2_ExpiredTerminalRunsFlow ==
    \A p \in Procs :
        (ExpiredTerminal(loaded[p]) /\ GotCredentials(p)) =>
            /\ Has(p, "flow_ok")
            /\ creds[p] # loaded[p]
            /\ wrote[p] = creds[p]

(***************************************************************************)
(* C3. A failed refresh does not fail the call: the loaded record is       *)
(* dropped, the client-secrets check and the interactive flow follow, a    *)
(* successful flow's record is persisted and returned, and the call fails  *)
(* only when the secrets are missing or the flow fails.                    *)
(***************************************************************************)
C3_RefreshFailureFallsBack ==
    \A p \in Procs :
        Has(p, "refresh_fail") =>
            /\ creds[p] # loaded[p]
            /\ pc[p] = "flow" => creds[p] = None
            /\ pc[p] # "flow" => Has(p, "secrets_check")
            /\ GotCredentials(p) =>
                  /\ Has(p, "flow_ok")
                  /\ Valid(creds[p])
                  /\ wrote[p] = creds[p]
            /\ (pc[p] = "done" /\ ~Has(p, "request")) =>
                  outcome[p].error \in {"FileNotFoundError", "FlowError"}

C3_Witness ==
    \E p \in Procs :
        /\ Has(p, "refresh_fail")
        /\ Has(p, "flow_ok")
        /\ pc[p] = "build"
        /\ store = creds[p]

(***************************************************************************)
(* C4. A record that get_credentials obtained from the interactive flow or *)
(* refreshed is written to token.json before get_credentials returns it:   *)
(* the service is built and requests are made only with the written record.*)
(***************************************************************************)
Produced(p) == Has(p, "refresh_ok") \/ Has(p, "flow_ok")
C4_PersistBeforeUse ==
    \A p \in Procs :
        (Produced(p) /\ GotCredentials(p)) =>
            /\ wrote[p] = creds[p]
            /\ \E n \in DOMAIN trace[p] :
                  /\ trace[p][n] = "persist"
                  /\ \A m \in DOMAIN trace[p] : trace[p][m] = "request" => n < m

C4_Witness ==
    \E p \in Procs :
        /\ Has(p, "refresh_ok")
        /\ Has(p, "request")
        /\ wrote[p] = creds[p]

(***************************************************************************)
(* C5. With APOLLO_API_KEY unset or empty an Apollo tool raises and sends  *)
(* no request; a spreadsheet tool that reaches the interactive flow with   *)
(* client_secrets.json missing, or whose flow fails, ends with that error  *)
(* (raised, or as upload_csv's error object), sends no request and does    *)
(* not write token.json.                                                   *)
(***************************************************************************)
C5_ConfigErrorNoRequest ==
    /\ (server = "apollo" /\ apikey \in {"unset", ""} /\ a_pc # "idle") =>
          /\ a_pc = "raised"
          /\ a_outcome = Raised("ValueError", "")
          /\ a_sent = <<>>
    /\ \A p \in Procs :
          /\ ~secrets => ~Has(p, "flow_ok") /\ ~Has(p, "flow_fail")
          /\ (pc[p] = "done" /\ LastEvent(p) \in {"secrets_check", "flow_fail"}) =>
                /\ outcome[p].kind \in {"raised", "error"}
                /\ outcome[p].error =
                      (IF LastEvent(p) = "flow_fail" THEN "FlowError"
                       ELSE "FileNotFoundError")
                /\ outcome[p].kind = "error" <=> tool[p] = "upload_csv"
                /\ ~Has(p, "request")
                /\ ~Has(p, "persist")
                /\ wrote[p] = None

C5_Witness ==
    /\ server = "apollo"
    /\ apikey = ""
    /\ a_pc = "raised"
    /\ a_tool = "enrich_person"

(***************************************************************************)
(* C6. Two calls that loaded the same expired record with a refresh token  *)
(* and both refreshed it: each returns a valid record, and token.json      *)
(* holds the complete record of the call that persisted last.  Both calls  *)
(* do refresh: nothing excludes the second one.                            *)
(***************************************************************************)
BothRefreshed ==
    /\ \A p \in Procs : Has(p, "refresh_ok") /\ GotCredentials(p)
    /\ \A p, q \in Procs : loaded[p] = loaded[q]
C6_LastWriterWins ==
    BothRefreshed =>
        /\ \A p \in Procs : Valid(creds[p])
        /\ lastWriter \in Procs
        /\ store = creds[lastWriter]
        /\ Valid(store)

C6_Witness ==
    /\ BothRefreshed
    /\ \A p \in Procs : pc[p] = "done"
    /\ creds[1] # creds[2]
    /\ lastWriter = 1

(***************************************************************************)
(* C7. A loaded record that is valid is returned as it is: no refresh, no  *)
(* interactive flow, no look at client_secrets.json and no write of        *)
(* token.json by the call.                                                 *)
(***************************************************************************)
C7_ValidUsedAsIs ==
    \A p \in Procs :
        Valid(loaded[p]) =>
            /\ GotCredentials(p)
            /\ creds[p] = loaded[p]
            /\ wrote[p] = None
            /\ \A n \in DOMAIN trace[p] : trace[p][n] \in {"load", "request"}

C7_Witness ==
    \E p \in Procs :
        /\ Valid(loaded[p])
        /\ pc[p] = "done"
        /\ outcome[p] = Result
        /\ ~secrets

(***************************************************************************)
(* C8 as written. A parameter the caller left unset is never a key of the  *)
(* payload or query mapping, at top level or as min/max of a range group.  *)
(* page and per_page are sent with their defaults when unset: violated.    *)
(***************************************************************************)
UnsetRangeEndsAbsent ==
    \A st \in RangeSteps(a_tool) :
        st.key \in DOMAIN Sent =>
            /\ a_input[st.lo] = NoneV => "min" \notin DOMAIN Sent[st.key].o
            /\ a_input[st.hi] = NoneV => "max" \notin DOMAIN Sent[st.key].o
C8_UnsetNeverAKey ==
    RequestMade =>
        /\ \A k \in Params(a_tool) : a_input[k] = NoneV => k \notin DOMAIN Sent
        /\ UnsetRangeEndsAbsent

(***************************************************************************)
(* C8 amended. A parameter other than page and per_page that the caller    *)
(* left unset is never a key of the payload or query mapping, at top level *)
(* or as min/max of a range group; page and per_page are always keys.      *)
(***************************************************************************)
C8_UnsetOptionalNeverAKey ==
    RequestMade =>
        /\ \A k \in Params(a_tool) \ PaginationParams :
              a_input[k] = NoneV => k \notin DOMAIN Sent
        /\ UnsetRangeEndsAbsent
        /\ \A k \in DOMAIN Sent : Sent[k] # NoneV
        /\ a_tool \in SearchTools => PaginationParams \subseteq DOMAIN Sent

C8_Witness ==
    /\ RequestMade
    /\ a_tool = "search_people"
    /\ a_input["revenue_range_min"] # NoneV
    /\ a_input["revenue_range_max"] = NoneV
    /\ a_input["per_page"] = NoneV
    /\ "revenue_range" \in DOMAIN Sent

(***************************************************************************)
(* C9. A range group is in the payload exactly when one of its _min/_max   *)
(* parameters is supplied, and its object holds exactly the supplied ends  *)
(* under min and max with the supplied values.                             *)
(***************************************************************************)
C9_RangeGroups ==
    (RequestMade /\ a_tool \in SearchTools) =>
        \A st \in RangeSteps(a_tool) :
            LET lo == a_input[st.lo]
                hi == a_input[st.hi]
            IN  /\ st.key \in DOMAIN Sent <=> (lo # NoneV \/ hi # NoneV)
                /\ st.key \in DOMAIN Sent =>
                      /\ Sent[st.key].t = "obj"
                      /\ DOMAIN Sent[st.key].o =
                            {k \in {"min"} : lo # NoneV} \cup {k \in {"max"} : hi # NoneV}
                      /\ lo # NoneV => Sent[st.key].o["min"] = lo
                      /\ hi # NoneV => Sent[st.key].o["max"] = hi

C9_Witness ==
    /\ RequestMade
    /\ a_tool = "search_companies"
    /\ a_input["total_funding_range_min"] = IntV(0)
    /\ a_input["total_funding_range_max"] = IntV(7)
    /\ DOMAIN Sent["total_funding_range"].o = {"min", "max"}

(***************************************************************************)
(* C10. The payload of search_people and search_companies always has       *)
(* per_page: 100 when more than 100 is requested, the requested value      *)
(* otherwise (the default 25 when the caller names none).                  *)
(***************************************************************************)
RequestedPerPage ==
    IF a_input["per_page"] = NoneV THEN IntV(DefaultPerPage) ELSE a_input["per_page"]
C10_PerPageClamped ==
    (RequestMade /\ a_tool \in SearchTools) =>
        /\ "per_page" \in DOMAIN Sent
        /\ RequestedPerPage.i > PerPageCap => Sent["per_page"] = IntV(PerPageCap)
        /\ RequestedPerPage.i <= PerPageCap => Sent["per_page"] = RequestedPerPage

C10_Witness ==
    /\ RequestMade
    /\ a_tool \in SearchTools
    /\ a_input["per_page"].i = PerPageCap + 1
    /\ Sent["per_page"].i = PerPageCap

(***************************************************************************)
(* C11 as written. Every independent (non-grouped) parameter the caller    *)
(* supplied is a key of the payload or query mapping under its own name,   *)
(* with exactly the supplied value, reveal_personal_emails included.       *)
(* reveal_personal_emails True is sent as the string "true" and False is   *)
(* not sent; per_page above 100 is sent as 100: violated.                  *)
(***************************************************************************)
CopySteps(t) == {Steps(t)[n] : n \in {m \in 1..Len(Steps(t)) : Steps(t)[m].kind = "copy"}}
CopiedParams(t) == {st.key : st \in CopySteps(t)}
Independent(t) ==
    CopiedParams(t) \cup (IF t \in SearchTools THEN PaginationParams
                          ELSE {"reveal_personal_emails"})
C11_SuppliedSentUnchanged ==
    RequestMade =>
        \A k \in Independent(a_tool) :
            a_input[k] # NoneV => (k \in DOMAIN Sent /\ Sent[k] = a_input[k])

(***************************************************************************)
(* C11 amended. Every supplied parameter that the tool copies, and page,   *)
(* is a key of the payload or query mapping under its own name with        *)
(* exactly the supplied value; per_page is sent as min(per_page, 100);     *)
(* reveal_personal_emails True is sent as the string "true", and False is  *)
(* not a key of the query mapping.                                         *)
(***************************************************************************)
C11_SuppliedCopiedUnchanged ==
    RequestMade =>
        /\ \A k \in CopiedParams(a_tool) \cup ({"page"} \cap Params(a_tool)) :
              a_input[k] # NoneV => (k \in DOMAIN Sent /\ Sent[k] = a_input[k])
        /\ a_tool = "enrich_person" =>
              /\ a_input["reveal_personal_emails"] = BoolV(TRUE) =>
                    ("reveal_personal_emails" \in DOMAIN Sent
                       /\ Sent["reveal_personal_emails"] = StrV("true"))
              /\ a_input["reveal_personal_emails"] # BoolV(TRUE) =>
                    "reveal_personal_emails" \notin DOMAIN Sent

C11_Witness ==
    /\ RequestMade
    /\ a_tool = "enrich_person"
    /\ a_input["reveal_personal_emails"] = BoolV(FALSE)
    /\ a_input["first_name"] = StrV("")
    /\ DOMAIN Sent = {"first_name"}


(***************************************************************************)
(* Helpers of the projection properties.                                   *)
(***************************************************************************)
Projected == proj.pc = "projected"
Dots(field) == Cardinality({n \in DOMAIN field : field[n] = "."})
ShallowPath(field) == Dots(field) < 2
Flat(obj) == \A k \in DOMAIN obj : obj[k].t # "obj"
FieldSet(fields) == {fields[n] : n \in DOMAIN fields}
NestingTools == {"search_people", "enrich_person"}

(***************************************************************************)
(* C12. Every key of a projection result is a key of the source: a         *)
(* top-level entry equals the source's, a nested parent entry holds only   *)
(* children equal to those of the source's parent, and a parent whose      *)
(* source value is a scalar or a list is never an object in the result.    *)
(* A dotted field whose parent is a scalar or a list leaves {} under the   *)
(* parent key: violated.                                                   *)
(***************************************************************************)
C12_ResultHoldsSourceValues ==
    Projected =>
        \A k \in DOMAIN proj.result :
            /\ k \in DOMAIN proj.source
            /\ \/ proj.result[k] = proj.source[k]
               \/ /\ proj.source[k].t = "obj"
                  /\ proj.result[k].t = "obj"
                  /\ \A ch \in DOMAIN proj.result[k].o :
                        /\ ch \in DOMAIN proj.source[k].o
                        /\ proj.result[k].o[ch] = proj.source[k].o[ch]
            /\ proj.source[k].t \in {"str", "int", "bool", "list"} =>
                  proj.result[k].t # "obj"

(***************************************************************************)
(* C13. enrich_person: when a requested path starts with "contact." or     *)
(* "organization." and no child was copied for that parent because the     *)
(* source's parent object lacks the requested children, the result holds   *)
(* the whole source object under the parent key.                           *)
(* The loop has already left {} under the parent key, so the whole object  *)
(* is not put there: violated.                                             *)
(***************************************************************************)
NoChildCopied(name) ==
    /\ Key(name) \in DOMAIN proj.source
    /\ proj.source[Key(name)].t = "obj"
    /\ \E n \in DOMAIN proj.fields : StartsWith(proj.fields[n], <<name, ".">>)
    /\ \A n \in DOMAIN proj.fields :
          StartsWith(proj.fields[n], <<name, ".">>) =>
              SplitChild(proj.fields[n]) \notin DOMAIN proj.source[Key(name)].o
C13_WholeObjectWhenChildMissing ==
    (Projected /\ proj.tool = "enrich_person") =>
        \A name \in {"contact", "organization"} :
            NoChildCopied(name) =>
                /\ Key(name) \in DOMAIN proj.result
                /\ proj.result[Key(name)] = proj.source[Key(name)]

(***************************************************************************)
(* C14. A path with two or more dots is a literal key that matches         *)
(* nothing: for a source without that key the result is the one the field  *)
(* list gives without the path, with no entry for its first segment.       *)
(* split(".", 1) takes the first segment as parent and leaves {} under it: *)
(* violated.                                                               *)
(***************************************************************************)
C14_DeepPathContributesNothing ==
    (Projected /\ proj.tool \in NestingTools
       /\ \A n \in DOMAIN proj.fields :
             ~ShallowPath(proj.fields[n]) => proj.fields[n] \notin DOMAIN proj.source) =>
        proj.result =
            ProjectObject(proj.tool, proj.source, SelectSeq(proj.fields, ShallowPath))

(***************************************************************************)
(* C15 as written. For a flat source (no value is an object) and a field   *)
(* list that is all of its top-level keys, in any order, the result of     *)
(* each of the three loops equals the source.                              *)
(* search_people and enrich_person take a key that contains a dot for a    *)
(* nested path and do not copy it: violated.                               *)
(***************************************************************************)
AllKeysRequested ==
    /\ Projected
    /\ Flat(proj.source)
    /\ FieldSet(proj.fields) = DOMAIN proj.source
C15_FlatProjectionIsIdentity ==
    AllKeysRequested => proj.result = proj.source

(***************************************************************************)
(* C15 amended. For a flat source and a field list that is all of its      *)
(* top-level keys, in any order, the result equals the source in           *)
(* search_companies, and in search_people and enrich_person when no key of *)
(* the source contains a dot.                                              *)
(***************************************************************************)
C15_FlatDotFreeProjectionIsIdentity ==
    (AllKeysRequested
       /\ (proj.tool \in NestingTools => \A k \in DOMAIN proj.source : ~HasDot(k))) =>
        proj.result = proj.source

C15_Witness ==
    /\ AllKeysRequested
    /\ proj.tool = "search_people"
    /\ proj.fields = <<Key("organization"), Key("name")>>
    /\ proj.source[Key("organization")] = ListV(<<"Acme">>)
    /\ proj.result = proj.source

(***************************************************************************)
(* C16. enrich_person, for every field list, the empty one included: each  *)
(* of employment_history, contact_emails and phone_numbers that is a key   *)
(* of the source is in the result with the source's value, and none of     *)
(* them is in the result when the source lacks it.                         *)
(***************************************************************************)
C16_ArraysAlwaysIncluded ==
    (Projected /\ proj.tool = "enrich_person") =>
        \A n \in DOMAIN AlwaysIncludeArrays :
            LET arr == AlwaysIncludeArrays[n]
            IN  IF arr \in DOMAIN proj.source
                THEN arr \in DOMAIN proj.result /\ proj.result[arr] = proj.source[arr]
                ELSE arr \notin DOMAIN proj.result

C16_Witness ==
    /\ Projected
    /\ proj.tool = "enrich_person"
    /\ proj.fields = <<>>
    /\ Key("employment_history") \in DOMAIN proj.source
    /\ Key("phone_numbers") \notin DOMAIN proj.source
    /\ DOMAIN proj.result = {Key("employment_history")}

(***************************************************************************)
(* Helpers of the row search properties.                                   *)
(***************************************************************************)
Searched == srch.pc = "done"
IsLetterColumn ==
    srch.column.given /\ Len(srch.column.text) = 1 /\ IsUpper(srch.column.text[1])
\* A is 0, B is 1, ..., Z is 25
LetterIndex == IndexIn(UpperCase, srch.column.text[1]) - 1
Normal(x) == IF srch.case_sensitive THEN x ELSE LowerStr(x)
MatchingRows ==
    {n \in DOMAIN srch.values :
        /\ LetterIndex < Len(srch.values[n])
        /\ Contains(Normal(srch.values[n][LetterIndex + 1]), Normal(srch.term))}

(***************************************************************************)
(* C17. spreadsheets_search with a column selector of more than one letter *)
(* rejects the selector explicitly: the tool reports the rejection to the  *)
(* caller as its error result and compares no row at any index.            *)
(* No row is compared, but nothing checks the selector: ord() raises       *)
(* TypeError, which the tool does not catch: violated.                     *)
(***************************************************************************)
C17_MultiLetterRejected ==
    (Searched /\ srch.column.given /\ Len(srch.column.text) > 1) =>
        /\ srch.outcome.kind = "error"
        /\ srch.compared = {}
        /\ srch.matches = <<>>

(***************************************************************************)
(* C18. spreadsheets_search with a column letter A..Z of index k: the      *)
(* matches are, in input order, exactly the rows that have a cell at index *)
(* k whose string form contains the term (both lowercased when             *)
(* case_sensitive is false); row_number is the 1-based input position and  *)
(* data the row; a row with at most k cells never matches and raises       *)
(* nothing; total_matches is the number of matches.                        *)
(***************************************************************************)
C18_ColumnSearch ==
    (Searched /\ IsLetterColumn) =>
        /\ srch.outcome = Result
        /\ {srch.matches[n].row_number : n \in DOMAIN srch.matches} = MatchingRows
        /\ \A n, m \in DOMAIN srch.matches :
              n < m => srch.matches[n].row_number < srch.matches[m].row_number
        /\ \A n \in DOMAIN srch.matches :
              srch.matches[n].data = srch.values[srch.matches[n].row_number]
        /\ srch.total_matches = Cardinality(MatchingRows)

C18_Witness ==
    /\ Searched
    /\ srch.column = Column(<<"B">>)
    /\ ~srch.case_sensitive
    /\ srch.term = <<"A", "b">>
    /\ srch.values = << <<(<<"A", "b">>)>>, <<(<<"a">>), (<<"A", "b">>)>> >>
    /\ srch.matches = << [row_number |-> 2, data |-> srch.values[2]] >>
    /\ srch.total_matches = 1

(***************************************************************************)
(* C19. Every normal return of get_credentials yields a record that is     *)
(* valid, whatever token.json held: no file, an unreadable file, a valid   *)
(* record, an expired one with or without refresh token, one that is not   *)
(* valid yet not expired.                                                  *)
(* A loaded record that is expired without refresh token, or not valid yet *)
(* not expired, is written back and returned as it is: violated.           *)
(***************************************************************************)
C19_ReturnedRecordIsValid ==
    \A p \in Procs : GotCredentials(p) => Valid(creds[p])

(***************************************************************************)
(* C20. get_credentials and generate_token.main are equivalent: from the   *)
(* same token.json and client_secrets.json, with the same outcomes of the  *)
(* refresh and of the flow, they run the same refresh, flow and persist    *)
(* steps, fail in the same cases and leave the same token.json.            *)
(* main looks for client_secrets.json first, has no handler around the     *)
(* load and the refresh, and runs the flow for every loaded record that is *)
(* not valid and cannot be refreshed: violated.                            *)
(***************************************************************************)
LifecycleStep(ev) ==
    ev \in {"refresh_ok", "refresh_fail", "flow_ok", "flow_fail", "persist"}
ServerEnded == pc[1] = "build" \/ (pc[1] = "done" /\ Has(1, "load"))
ServerFailed == pc[1] = "done"
MainEnded == gen.pc = "done"
MainFailed == gen.outcome.kind # "result"
GenHas(ev) == \E n \in DOMAIN gen.trace : gen.trace[n] = ev
SameOutcomes ==
    /\ ~(Has(1, "refresh_ok") /\ GenHas("refresh_fail"))
    /\ ~(Has(1, "refresh_fail") /\ GenHas("refresh_ok"))
    /\ ~(Has(1, "flow_ok") /\ GenHas("flow_fail"))
    /\ ~(Has(1, "flow_fail") /\ GenHas("flow_ok"))
    /\ (Has(1, "flow_ok") /\ GenHas("flow_ok")) => creds[1].rt = gen.creds.rt
C20_SameLifecycle ==
    (ServerEnded /\ MainEnded /\ SameOutcomes) =>
        /\ SelectSeq(trace[1], LifecycleStep) = SelectSeq(gen.trace, LifecycleStep)
        /\ ServerFailed <=> MainFailed
        /\ store = gen.store

(***************************************************************************)
(* C21. upload_csv is all-or-nothing for the target sheet: a call that     *)
(* returns an error object (CSV missing or empty, credential failure,      *)
(* provider error on the clear or on the update) leaves the sheet as it    *)
(* was before the call; the sheet changes only in a call that returns the  *)
(* update result.                                                          *)
(* A provider error on the update comes after the clear was carried out:   *)
(* the call returns an error object and the sheet is empty: violated.      *)
(***************************************************************************)
C21_UploadAllOrNothing ==
    \A p \in Procs :
        (tool[p] = "upload_csv" /\ pc[p] = "done") =>
            /\ outcome[p].kind = "error" => SheetContents(p) = "as_before"
            /\ SheetContents(p) # "as_before" => outcome[p] = Result

(***************************************************************************)
(* C22. For every column selector of one character (a letter in either     *)
(* case, a digit, punctuation) the column index is in 0..25 or the         *)
(* selector is rejected: no cell is read with a negative index, counted    *)
(* from the end of a row, and the search never ends with an out-of-range   *)
(* access on a short or empty row.                                         *)
(* "@" gives index -1 and "1" gives -16: the last cell of a row is         *)
(* compared, or row[col_index] raises IndexError: violated.                *)
(***************************************************************************)
OneCharColumn == srch.column.given /\ Len(srch.column.text) = 1
SelectorRejected ==
    srch.outcome.kind \in {"raised", "error"} /\ srch.outcome.error # "IndexError"
C22_IndexInAlphabetOrRejected ==
    (Searched /\ OneCharColumn) =>
        /\ srch.compared # {} => ColIndex(srch.column.text) \in 0..25
        /\ srch.compared = {} =>
              (SelectorRejected \/ srch.outcome = Result)
        /\ srch.outcome.error # "IndexError"

====
